---- MODULE Spec2Model ----
(***************************************************************************)
(* A model of src/dominicx.py: ReconAuto.run, the prerequisite check and   *)
(* the five pipeline stages with the summary, over an output directory     *)
(* holding text files.  Text is modelled character by character: a line is *)
(* a string, a file is a sequence of lines (without their line breaks) or  *)
(* bytes that do not decode.                                               *)
(***************************************************************************)
EXTENDS Integers, Sequences, FiniteSets, TLC

(***************************************************************************)
(* Strings, as Python's str methods and the re module compute them.        *)
(***************************************************************************)

\* Characters str.strip() and str.split() treat as whitespace.
IsSpace(c) == c \in {" ", "\t", "\n", "\r", "\f"}

RECURSIVE LStrip(_)
LStrip(s) == IF s = "" THEN ""
             ELSE IF IsSpace(Head(s)) THEN LStrip(Tail(s)) ELSE s

RECURSIVE RStrip(_)
RStrip(s) == IF s = "" THEN ""
             ELSE IF IsSpace(SubSeq(s, Len(s), Len(s)))
                  THEN RStrip(SubSeq(s, 1, Len(s) - 1)) ELSE s

\* str.strip()
Strip(s) == RStrip(LStrip(s))

\* s.startswith(p)
StartsWith(s, p) == Len(s) >= Len(p) /\ SubSeq(s, 1, Len(p)) = p

\* sub in s
RECURSIVE Contains(_, _)
Contains(s, sub) == IF Len(s) < Len(sub) THEN FALSE
                    ELSE StartsWith(s, sub) \/ Contains(Tail(s), sub)

\* s.replace(old, new): left to right, non-overlapping
RECURSIVE Replace(_, _, _)
Replace(s, old, new) ==
    IF s = "" THEN ""
    ELSE IF StartsWith(s, old)
         THEN new \o Replace(SubSeq(s, Len(old) + 1, Len(s)), old, new)
         ELSE Head(s) \o Replace(Tail(s), old, new)

\* The longest prefix of s without whitespace.
RECURSIVE Token(_)
Token(s) == IF s = "" \/ IsSpace(Head(s)) THEN "" ELSE Head(s) \o Token(Tail(s))

\* str.split(): the whitespace-separated tokens of s
RECURSIVE Split(_)
Split(s) == LET t == LStrip(s) IN
            IF t = "" THEN <<>>
            ELSE <<Token(t)>> \o Split(SubSeq(t, Len(Token(t)) + 1, Len(t)))

\* s.split(sep, 1) for a one-character sep that occurs in s
RECURSIVE Before(_, _)
Before(s, sep) == IF s = "" \/ Head(s) = sep THEN ""
                  ELSE Head(s) \o Before(Tail(s), sep)

SplitOnce(s, sep) ==
    <<Before(s, sep), SubSeq(s, Len(Before(s, sep)) + 2, Len(s))>>

\* The lines a text becomes when written to a file and read back.
RECURSIVE SplitLines(_)
SplitLines(text) ==
    IF text = "" THEN <<>>
    ELSE <<Before(text, "\n")>>
         \o SplitLines(SubSeq(text, Len(Before(text, "\n")) + 2, Len(text)))

\* ord(c) for the characters that occur in host names, URLs and scan output.
Digits == "0123456789"
Upper == "ABCDEFGHIJKLMNOPQRSTUVWXYZ"
Lower == "abcdefghijklmnopqrstuvwxyz"

IndexIn(c, s) == CHOOSE i \in 1..Len(s) : SubSeq(s, i, i) = c

Ord(c) == CASE Contains(Digits, c) -> 47 + IndexIn(c, Digits)
            [] Contains(Upper, c) -> 64 + IndexIn(c, Upper)
            [] Contains(Lower, c) -> 96 + IndexIn(c, Lower)
            [] c = "\t" -> 9
            [] c = "\n" -> 10
            [] c = " " -> 32
            [] c = "*" -> 42
            [] c = "-" -> 45
            [] c = "." -> 46
            [] c = "/" -> 47
            [] c = ":" -> 58
            [] c = "[" -> 91
            [] c = "]" -> 93
            [] c = "_" -> 95

\* a < b for Python strings
RECURSIVE StrLess(_, _)
StrLess(a, b) ==
    IF b = "" THEN FALSE
    ELSE IF a = "" THEN TRUE
    ELSE IF Head(a) = Head(b) THEN StrLess(Tail(a), Tail(b))
    ELSE Ord(Head(a)) < Ord(Head(b))

\* The set written in descending order, as a merge without sorted() could.
RECURSIVE Descending(_)
Descending(S) ==
    IF S = {} THEN <<>>
    ELSE LET m == CHOOSE x \in S : \A y \in S \ {x} : StrLess(y, x)
         IN <<m>> \o Descending(S \ {m})

\* sorted(S) for a set of strings
RECURSIVE Sorted(_)
Sorted(S) ==
    IF S = {} THEN <<>>
    ELSE LET m == CHOOSE x \in S : \A y \in S \ {x} : StrLess(x, y)
         IN <<m>> \o Sorted(S \ {m})

IsDigitOrDot(c) == c \in {"0", "1", "2", "3", "4", "5", "6", "7", "8", "9", "."}

\* The longest prefix of s made of digits and dots.
RECURSIVE DigitRun(_)
DigitRun(s) == IF s = "" \/ ~IsDigitOrDot(Head(s)) THEN ""
               ELSE Head(s) \o DigitRun(Tail(s))

\* re.search(r'\[([0-9.]+)\]', s): group 1 of the leftmost match, as a
\* one-element sequence, or <<>> when nothing matches.
RECURSIVE SearchBracketed(_)
SearchBracketed(s) ==
    IF s = "" THEN <<>>
    ELSE IF Head(s) = "["
            /\ DigitRun(Tail(s)) # ""
            /\ StartsWith(SubSeq(s, Len(DigitRun(Tail(s))) + 2, Len(s)), "]")
         THEN <<DigitRun(Tail(s))>>
         ELSE SearchBracketed(Tail(s))

(***************************************************************************)
(* Configuration and the state of one run.                                 *)
(***************************************************************************)

REQUIRED == <<"subfinder", "httpx", "naabu", "nmap", "katana", "dirsearch", "nuclei">>
GO_PACKAGES == {"subfinder", "httpx", "naabu", "katana", "nuclei"}

\* The target domain given on the command line.
Target == "example.com"

\* At most this many required tools are missing from the search path at start.
MaxMissing == 1

VARIABLES
    pc,          \* where ReconAuto.run stands: the next stage, or "done"
    path,        \* the executables shutil.which finds
    do_install,  \* self.do_install
    fs,          \* the text files under self.outdir: name -> content
    summary,     \* summary.json: <<>> while absent, else <<the record>>
    trace,       \* stages entered and left, commands started and exited (rc: the
                 \* exit code run() returns, 124 for a timeout), faults caught,
                 \* counts printed (in rc)
    error_log,   \* the records the logger appended to logs/error.log
    chk          \* check_and_install_all: what was missing, the installs, the result

vars == <<pc, path, do_install, fs, summary, trace, error_log, chk>>

\* A file that decodes as text, and one whose bytes do not.
File(lines) == [text |-> TRUE, lines |-> lines]
Garbage == [text |-> FALSE, lines |-> <<>>]

\* Path.exists()
Exists(files, name) == name \in DOMAIN files

\* open(name, 'w') followed by the writes, or a tool writing its output file
Write(files, name, content) ==
    [n \in DOMAIN files \cup {name} |-> IF n = name THEN content ELSE files[n]]

DirsearchPy == "dirsearch/dirsearch.py"

Ev(ev, stage, what, arg, rc) ==
    [ev |-> ev, stage |-> stage, what |-> what, arg |-> arg, rc |-> rc]

Enter(stage) == <<Ev("enter", stage, "", "", 0)>>
Return(stage) == <<Ev("return", stage, "", "", 0)>>
Raise(stage) == <<Ev("raise", stage, "", "", 0)>>
Caught(stage, handler) == <<Ev("caught", stage, handler, "", 0)>>

\* run(cmd): the command is started and run() returns only once it has exited
\* or timed out, with the exit code as its result.
Run(stage, tool, arg, rc) ==
    <<Ev("start", stage, tool, arg, 0), Ev("exit", stage, tool, arg, rc)>>

\* logger.error / logger.exception / logger.info through the file handler
Log(level, msg) == <<[level |-> level, msg |-> msg]>>

\* which(bin_name)
Which(p, t) == t \in p

Range(seq) == {seq[i] : i \in 1..Len(seq)}

\* [t for t in REQUIRED if not which(t)]
Missing(p) == SelectSeq(REQUIRED, LAMBDA t : ~Which(p, t))

(***************************************************************************)
(* The installers.  Each takes the state st threaded through the install   *)
(* pass (path, fs, events, log) and the environment env of this pass: is   *)
(* go on the path, which package manager is, does go install into a        *)
(* directory on the path, and the exit code of each install command.       *)
(***************************************************************************)

go_install(m, st, env) ==
    IF ~env.go
    THEN [st EXCEPT !.success = FALSE,
                    !.log = @ \o Log("ERROR", "go not found; cannot go install " \o m)]
    ELSE IF env.rc[m] = 0
    THEN [st EXCEPT !.success = TRUE,
                    !.events = @ \o Run("check", "go", "install " \o m, 0),
                    !.path = IF env.gobin THEN @ \cup {m} ELSE @]
    ELSE [st EXCEPT !.success = FALSE,
                    !.events = @ \o Run("check", "go", "install " \o m, env.rc[m]),
                    !.log = @ \o Log("ERROR", "go install failed for " \o m)]

try_pkg_manager_install_nmap(st, env) ==
    IF env.pm = "apt"
    THEN [st EXCEPT !.success = (env.rc["nmap"] = 0),
                    !.events = @ \o Run("check", "sudo", "apt update", env.rcUpdate)
                                 \o Run("check", "sudo", "apt install -y nmap", env.rc["nmap"]),
                    !.path = IF env.rc["nmap"] = 0 THEN @ \cup {"nmap"} ELSE @]
    ELSE IF env.pm = "brew"
    THEN [st EXCEPT !.success = (env.rc["nmap"] = 0),
                    !.events = @ \o Run("check", "brew", "install nmap", env.rc["nmap"]),
                    !.path = IF env.rc["nmap"] = 0 THEN @ \cup {"nmap"} ELSE @]
    ELSE [st EXCEPT !.success = FALSE]

\* A clone that would also put a "dirsearch" executable on the search path.
clone_dirsearch_on_path(st, env) ==
    IF Exists(st.fs, DirsearchPy)
    THEN [st EXCEPT !.success = TRUE]
    ELSE IF env.rc["dirsearch"] = 0
    THEN [st EXCEPT !.success = TRUE,
                    !.events = @ \o Run("check", "git", "clone dirsearch", 0),
                    !.fs = Write(@, DirsearchPy, File(<<>>)),
                    !.path = @ \cup {"dirsearch"}]
    ELSE [st EXCEPT !.success = FALSE,
                    !.events = @ \o Run("check", "git", "clone dirsearch", env.rc["dirsearch"]),
                    !.log = @ \o Log("ERROR", "Failed to clone dirsearch")]

clone_dirsearch(st, env) ==
    IF Exists(st.fs, DirsearchPy)
    THEN [st EXCEPT !.success = TRUE]
    ELSE IF env.rc["dirsearch"] = 0
    THEN [st EXCEPT !.success = TRUE,
                    !.events = @ \o Run("check", "git", "clone dirsearch", 0),
                    !.fs = Write(@, DirsearchPy, File(<<>>))]
    ELSE [st EXCEPT !.success = FALSE,
                    !.events = @ \o Run("check", "git", "clone dirsearch", env.rc["dirsearch"]),
                    !.log = @ \o Log("ERROR", "Failed to clone dirsearch")]

\* The loop "for m in missing" of check_and_install_all: stops at the first
\* install that fails; st.installed lists the installs that succeeded.
RECURSIVE InstallPass(_, _, _)
InstallPass(ms, st, env) ==
    IF ms = <<>> THEN [st EXCEPT !.success = TRUE]
    ELSE LET m == Head(ms)
             r == IF m \in GO_PACKAGES THEN go_install(m, st, env)
                  ELSE IF m = "nmap" THEN try_pkg_manager_install_nmap(st, env)
                  ELSE clone_dirsearch(st, env)
         IN IF r.success
            THEN InstallPass(Tail(ms), [r EXCEPT !.installed = Append(@, m)], env)
            ELSE IF m \in GO_PACKAGES
            THEN [r EXCEPT !.log = @ \o Log("ERROR", "Failed go install for " \o m)]
            ELSE IF m = "nmap"
            THEN [r EXCEPT !.log = @ \o Log("ERROR", "Failed to auto-install nmap")]
            ELSE r

\* check_and_install_all: the result, with the path, files, events and log
\* entries it leaves.
check_and_install_all(p, files, install, env) ==
    LET st0 == [success |-> TRUE, path |-> p, fs |-> files, events |-> <<>>,
                log |-> <<>>, installed |-> <<>>]
        missing == Missing(p)
    IN IF missing = <<>> THEN [st0 EXCEPT !.success = TRUE]
       ELSE IF ~install
       THEN [st0 EXCEPT !.success = FALSE, !.log = Log("ERROR", "Missing tools")]
       ELSE LET r == InstallPass(missing, st0, env)
            IN IF ~r.success THEN r
               ELSE IF Missing(r.path) # <<>>
               THEN [r EXCEPT !.success = FALSE,
                              !.log = @ \o Log("ERROR", "Tools still missing")]
               ELSE r

InstallCodes == {0, 1}

\* The environments an install pass over the missing tools ms can meet.
Envs(ms) ==
    [go : BOOLEAN, gobin : BOOLEAN, pm : {"apt", "brew", "none"},
     rcUpdate : InstallCodes, rc : [Range(ms) -> InstallCodes]]

\* The state ReconAuto.__init__ leaves: a new output directory named after the
\* second of the start, empty but for a dirsearch checkout it may already
\* hold (the case clone_dirsearch tests with target.exists()).  Up to
\* MaxMissing of the required tools are not on the search path.
Init ==
    /\ pc = "check"
    /\ \E miss \in SUBSET Range(REQUIRED) :
          /\ Cardinality(miss) <= MaxMissing
          /\ path = Range(REQUIRED) \ miss
    /\ do_install \in BOOLEAN
    /\ \E pre \in BOOLEAN :
          fs = IF pre THEN Write(<<>>, DirsearchPy, File(<<>>)) ELSE <<>>
    /\ summary = <<>>
    /\ trace = <<>>
    /\ error_log = <<>>
    /\ chk = [missing |-> <<>>, installed |-> <<>>, ok |-> "pending"]

\* A run that ignored the result of the check.
AfterCheckIgnored(ok) == "subenum"

\* run after the check: the pipeline starts only when the check returned True.
AfterCheck(ok) == IF ok THEN "subenum" ELSE "done"

\* ReconAuto.run up to the first stage: the check, and the return when it fails.
Check ==
    /\ pc = "check"
    /\ \E env \in Envs(Missing(path)) :
          LET r == check_and_install_all(path, fs, do_install, env)
          IN /\ path' = r.path
             /\ fs' = r.fs
             /\ error_log' = error_log \o r.log
             /\ chk' = [missing |-> Missing(path), installed |-> r.installed,
                        ok |-> IF r.success THEN "true" ELSE "false"]
             /\ trace' = trace \o Enter("check") \o r.events \o Return("check")
             /\ pc' = AfterCheck(r.success)
    /\ UNCHANGED <<do_install, summary>>

(***************************************************************************)
(* ReconAuto.run: the stages in order inside one try block.                *)
(***************************************************************************)

Stages == <<"subenum", "alive", "ports", "content", "nuclei", "summary">>

NextStage(stage) ==
    CASE stage = "subenum" -> "alive"
      [] stage = "alive" -> "ports"
      [] stage = "ports" -> "content"
      [] stage = "content" -> "nuclei"
      [] stage = "nuclei" -> "summary"
      [] stage = "summary" -> "done"

\* A run whose stages each swallowed their own exception would go on.
AfterStageSwallowing(stage, raised) == NextStage(stage)

\* Where run goes after a stage: an exception leaving the stage ends the try
\* block; otherwise the next call follows.
AfterStage(stage, raised) == IF raised THEN "done" ELSE NextStage(stage)

\* The events that close a stage, with those of "except Exception" of run.
Leave(stage, raised) ==
    IF raised THEN Raise(stage) \o Caught("run", "Unexpected error during run")
    ELSE Return(stage)

LeaveLog(raised) ==
    IF raised THEN Log("ERROR", "Unexpected error during run") ELSE <<>>

(***************************************************************************)
(* Step 1: step_subenum.                                                   *)
(***************************************************************************)

\* What subfinder can do: its exit code and the file it leaves, if any.
SubfinderRuns ==
    { [rc |-> 1, out |-> <<>>],
      [rc |-> 0, out |-> <<File(<<"a.example.com", " a.example.com", "",
                                 "*.b.example.com", "B.example.com">>)>>],
      [rc |-> 124, out |-> <<Garbage>>] }

\* What curl can return for a passive source: its exit code and its stdout,
\* which is empty, not JSON, or JSON.  A JSON item is an object (obj) with
\* the field the code reads (v, "" when absent or empty) or something else;
\* the web archive answers with rows, each the list of its fields.
Item(v) == [obj |-> TRUE, v |-> v]
NotAnObject == [obj |-> FALSE, v |-> ""]
Response(rc, kind, items) == [rc |-> rc, kind |-> kind, items |-> items]

CrtJson == <<Item("*.a.example.com"), Item(""), Item("c.example.com\n*.example.com"),
             NotAnObject, Item("z.example.com")>>
UrlscanJson == <<Item("c.example.com"), Item("c.example.com"), Item("*.d.example.com")>>
WebarchiveJson == << <<"urlkey", "timestamp", "original">>,
                     <<"com,example,e)/p", "2020", "http://e.example.com/p">>,
                     <<"com,example)/", "2020", "https://example.com/">>,
                     <<"com,other)/", "2020", "http://other.com/">>,
                     <<"short">>,
                     <<"com,example,f)/", "2020", "http://f.example.com/">> >>

\* The answers of crt.sh, urlscan and the web archive in one run.
PassiveAnswers ==
    { [crt |-> Response(6, "empty", <<>>), us |-> Response(0, "empty", <<>>),
       wa |-> Response(0, "malformed", <<>>)],
      [crt |-> Response(0, "json", CrtJson), us |-> Response(0, "malformed", <<>>),
       wa |-> Response(0, "json", WebarchiveJson)],
      [crt |-> Response(0, "json", SubSeq(CrtJson, 1, 3)), us |-> Response(0, "json", UrlscanJson),
       wa |-> Response(0, "json", SubSeq(WebarchiveJson, 1, 4))] }

\* The text the crt.sh loop writes before it ends or an item raises.
RECURSIVE CrtText(_)
CrtText(items) ==
    IF items = <<>> THEN [text |-> "", raised |-> FALSE]
    ELSE IF ~Head(items).obj THEN [text |-> "", raised |-> TRUE]
    ELSE LET rest == CrtText(Tail(items))
             nv == Head(items).v
         IN [rest EXCEPT !.text = (IF nv # "" THEN Replace(nv, "*.", "") \o "\n" ELSE "") \o @]

\* The text the urlscan loop writes.
RECURSIVE UrlscanText(_)
UrlscanText(items) ==
    IF items = <<>> THEN [text |-> "", raised |-> FALSE]
    ELSE IF ~Head(items).obj THEN [text |-> "", raised |-> TRUE]
    ELSE LET rest == UrlscanText(Tail(items))
             domain == Head(items).v
         IN [rest EXCEPT !.text = (IF domain # "" THEN domain \o "\n" ELSE "") \o @]

IsHostChar(c) == Contains(Digits, c) \/ Contains(Upper, c) \/ Contains(Lower, c)
                 \/ c \in {".", "_", "-"}

RECURSIVE HostRun(_)
HostRun(s) == IF s = "" \/ ~IsHostChar(Head(s)) THEN ""
              ELSE Head(s) \o HostRun(Tail(s))

\* re.search(r'([a-zA-Z0-9._-]+\.)?' + re.escape(target), url).group(0) as a
\* one-element sequence, or <<>> without a match.  At a position the greedy
\* group gives back characters until a dot and the target follow; failing
\* that the group is skipped.
RECURSIVE SearchHost(_, _)
SearchHost(url, target) ==
    IF url = "" THEN <<>>
    ELSE LET ends == { j \in 1..(Len(HostRun(url)) - 1) :
                          /\ SubSeq(url, j + 1, j + 1) = "."
                          /\ StartsWith(SubSeq(url, j + 2, Len(url)), target) }
         IN IF ends # {}
            THEN LET j == CHOOSE k \in ends : \A o \in ends : o <= k
                 IN <<SubSeq(url, 1, j + 1 + Len(target))>>
            ELSE IF StartsWith(url, target) THEN <<target>>
            ELSE SearchHost(Tail(url), target)

\* The text the web archive loop writes over arr[1:]; row[2] of a short row raises.
RECURSIVE WebarchiveText(_)
WebarchiveText(rows) ==
    IF rows = <<>> THEN [text |-> "", raised |-> FALSE]
    ELSE IF Len(Head(rows)) < 3 THEN [text |-> "", raised |-> TRUE]
    ELSE LET rest == WebarchiveText(Tail(rows))
             m == SearchHost(Head(rows)[3], Target)
         IN [rest EXCEPT !.text = (IF m # <<>> THEN m[1] \o "\n" ELSE "") \o @]

\* One passive source: nothing happens unless curl succeeded with output;
\* json.loads raising leaves no file; a fault inside the loop leaves the file
\* with what was written so far.  Either fault is logged by the handler.
Passive(files, name, resp, written) ==
    IF resp.rc # 0 \/ resp.kind = "empty" THEN [fs |-> files, caught |-> FALSE]
    ELSE IF resp.kind = "malformed" THEN [fs |-> files, caught |-> TRUE]
    ELSE [fs |-> Write(files, name, File(SplitLines(written.text))),
          caught |-> written.raised]

SourceFiles == <<"subfinder.txt", "crtsh.txt", "urlscan.txt", "webarchive.txt">>

\* A merge that forgot line.strip().
MergeSourcesUnstripped(files) ==
    UNION { Range(files[n].lines) : n \in Range(SourceFiles) \cap DOMAIN files } \ {""}

\* The merge of step_subenum: the stripped non-empty lines of the sources
\* that exist, as a set.
MergeSources(files) ==
    { Strip(l) : l \in UNION { Range(files[n].lines) :
                                 n \in Range(SourceFiles) \cap DOMAIN files } } \ {""}

\* Reading a source file that does not decode raises.
MergeRaises(files) ==
    \E n \in Range(SourceFiles) \cap DOMAIN files : ~files[n].text

FaultLog(caught, msg) == IF caught THEN Log("ERROR", msg) ELSE <<>>
FaultEv(caught, stage, msg) == IF caught THEN Caught(stage, msg) ELSE <<>>

step_subenum(files, sub, crt, us, wa) ==
    LET f1 == IF sub.out # <<>> THEN Write(files, "subfinder.txt", sub.out[1]) ELSE files
        p2 == Passive(f1, "crtsh.txt", crt, CrtText(crt.items))
        p3 == Passive(p2.fs, "urlscan.txt", us, UrlscanText(us.items))
        p4 == Passive(p3.fs, "webarchive.txt", wa,
                      WebarchiveText(IF wa.items = <<>> THEN <<>> ELSE Tail(wa.items)))
        raised == MergeRaises(p4.fs)
    IN [fs |-> IF raised THEN p4.fs
               ELSE Write(p4.fs, "subs_all.txt", File(Sorted(MergeSources(p4.fs)))),
        raised |-> raised,
        events |-> Run("subenum", "subfinder", Target, sub.rc)
                   \o Run("subenum", "curl", "crt.sh", crt.rc)
                   \o FaultEv(p2.caught, "subenum", "crt.sh parse")
                   \o Run("subenum", "curl", "urlscan.io", us.rc)
                   \o FaultEv(p3.caught, "subenum", "urlscan parse")
                   \o Run("subenum", "curl", "web.archive.org", wa.rc)
                   \o FaultEv(p4.caught, "subenum", "webarchive parse")
                   \o (IF raised THEN <<>>
                       ELSE <<Ev("print", "subenum", "hosts", "",
                                 Cardinality(MergeSources(p4.fs)))>>),
        log |-> FaultLog(p2.caught, "crt.sh parse")
                \o FaultLog(p3.caught, "urlscan parse")
                \o FaultLog(p4.caught, "webarchive parse")]

\* What one stage did to the run; the rest is left as it was.
Finish(stage, r) ==
    /\ fs' = r.fs
    /\ trace' = trace \o Enter(stage) \o r.events \o Leave(stage, r.raised)
    /\ error_log' = error_log \o r.log \o LeaveLog(r.raised)
    /\ pc' = AfterStage(stage, r.raised)
    /\ UNCHANGED <<path, do_install, chk>>

StepSubenum ==
    /\ pc = "subenum"
    /\ \E sub \in SubfinderRuns, ans \in PassiveAnswers :
          Finish("subenum", step_subenum(fs, sub, ans.crt, ans.us, ans.wa))
    /\ UNCHANGED summary

(***************************************************************************)
(* Step 2: step_alive.                                                     *)
(***************************************************************************)

\* What httpx can do: its exit code and httpx_raw.txt, if it writes one.
HttpxRuns ==
    { [rc |-> 1, out |-> <<>>],
      [rc |-> 0, out |-> <<File(<<>>)>>],
      [rc |-> 0, out |-> <<File(<<"https://a.example.com [200] [Title] [1.2.3.4]",
                                 "",
                                 "  https://b.example.com/x  ",
                                 "https://a.example.com [200] [Title] [1.2.3.4]",
                                 "http://c.example.com [1.2.3.4]">>)>>],
      [rc |-> 124, out |-> <<Garbage>>] }

\* The lines written to alive.txt: the first token of every non-blank line.
RECURSIVE AliveLines(_)
AliveLines(raw) ==
    IF raw = <<>> THEN <<>>
    ELSE LET parts == Split(Strip(Head(raw)))
         IN (IF parts = <<>> THEN <<>> ELSE <<parts[1]>>) \o AliveLines(Tail(raw))

\* The value written to ip_list.txt for one raw line, if any.
IpOf(line) ==
    IF Contains(line, "[") /\ Contains(line, "]") THEN SearchBracketed(line) ELSE <<>>

\* The lines written to ip_list.txt.
RECURSIVE IpLines(_)
IpLines(raw) ==
    IF raw = <<>> THEN <<>>
    ELSE (IF Split(Strip(Head(raw))) = <<>> THEN <<>> ELSE IpOf(Head(raw)))
         \o IpLines(Tail(raw))

step_alive(files, hx) ==
    IF ~Exists(files, "subs_all.txt")
    THEN [fs |-> files, raised |-> FALSE, events |-> <<>>, log |-> <<>>]
    ELSE LET f1 == IF hx.out # <<>> THEN Write(files, "httpx_raw.txt", hx.out[1]) ELSE files
             call == Run("alive", "httpx", "subs_all.txt", hx.rc)
         IN IF ~Exists(f1, "httpx_raw.txt")
            THEN [fs |-> f1, raised |-> FALSE, events |-> call, log |-> <<>>]
            ELSE IF ~f1["httpx_raw.txt"].text
            THEN [fs |-> Write(Write(f1, "alive.txt", File(<<>>)), "ip_list.txt", File(<<>>)),
                  raised |-> TRUE, events |-> call, log |-> <<>>]
            ELSE [fs |-> Write(Write(f1, "alive.txt", File(AliveLines(f1["httpx_raw.txt"].lines))),
                               "ip_list.txt", File(IpLines(f1["httpx_raw.txt"].lines))),
                  raised |-> FALSE, events |-> call, log |-> <<>>]

StepAlive ==
    /\ pc = "alive"
    /\ \E hx \in HttpxRuns : Finish("alive", step_alive(fs, hx))
    /\ UNCHANGED summary

(***************************************************************************)
(* Step 3: step_ports.                                                     *)
(***************************************************************************)

\* The detailed scan stops after this many lines of open_ports.txt.
NmapCap == 30

\* str(n) for 0 <= n < 100
Dec(n) == IF n < 10 THEN SubSeq(Digits, n + 1, n + 1)
          ELSE SubSeq(Digits, (n \div 10) + 1, (n \div 10) + 1)
               \o SubSeq(Digits, (n % 10) + 1, (n % 10) + 1)

\* n lines host:port with the ports from+1 .. from+n
PortLines(from, n) == [i \in 1..n |-> "1.2.3.4:" \o Dec(from + i)]

\* What naabu can do: its exit code and open_ports_raw.txt, if it writes one.
NaabuRuns ==
    { [rc |-> 1, out |-> <<>>],
      [rc |-> 0, out |-> <<File(<<"1.2.3.4:80", "1.2.3.4:80", "", " 1.2.3.4:443 ",
                                 "no open ports">>)>>],
      [rc |-> 0, out |-> <<File(<<"">> \o PortLines(0, NmapCap))>>],
      [rc |-> 0, out |-> <<File(PortLines(0, NmapCap + 2))>>],
      [rc |-> 124, out |-> <<Garbage>>] }

\* The number of the nmap call that fails, 0 for none, is at most this.
MaxFailAt == 1

\* The loop with the cap tested as "i > 30".
RECURSIVE NmapLoopLateBreak(_, _, _, _)
NmapLoopLateBreak(lines, i, n, failAt) ==
    IF lines = <<>> \/ i > NmapCap THEN [events |-> <<>>, files |-> {}]
    ELSE IF ~Contains(Head(lines), ":") THEN NmapLoopLateBreak(Tail(lines), i + 1, n, failAt)
    ELSE LET hp == SplitOnce(Strip(Head(lines)), ":")
             rc == IF n + 1 = failAt THEN 1 ELSE 0
             rest == NmapLoopLateBreak(Tail(lines), i + 1, n + 1, failAt)
         IN [events |-> Run("ports", "nmap", hp[1] \o ":" \o hp[2], rc) \o rest.events,
             files |-> (IF rc = 0 THEN {"nmap_" \o hp[1] \o "_" \o hp[2] \o ".txt"} ELSE {})
                       \cup rest.files]

\* The nmap loop from line i (counted from 0) on: the events and result files
\* of the scans; n counts the nmap calls made so far and call number failAt
\* exits with a failure.
RECURSIVE NmapLoop(_, _, _, _)
NmapLoop(lines, i, n, failAt) ==
    IF lines = <<>> \/ i >= NmapCap THEN [events |-> <<>>, files |-> {}]
    ELSE IF ~Contains(Head(lines), ":") THEN NmapLoop(Tail(lines), i + 1, n, failAt)
    ELSE LET hp == SplitOnce(Strip(Head(lines)), ":")
             rc == IF n + 1 = failAt THEN 1 ELSE 0
             rest == NmapLoop(Tail(lines), i + 1, n + 1, failAt)
         IN [events |-> Run("ports", "nmap", hp[1] \o ":" \o hp[2], rc) \o rest.events,
             files |-> (IF rc = 0 THEN {"nmap_" \o hp[1] \o "_" \o hp[2] \o ".txt"} ELSE {})
                       \cup rest.files]

\* The files nmap wrote, added to the directory.
WithFiles(files, names) ==
    [n \in DOMAIN files \cup names |-> IF n \in DOMAIN files THEN files[n] ELSE File(<<>>)]

\* step_ports past its guard: naabu, the copy, and the nmap loop in its try block.
ports_scan(files, nb, failAt) ==
    LET f1 == IF nb.out # <<>> THEN Write(files, "open_ports_raw.txt", nb.out[1]) ELSE files
        f2 == IF Exists(f1, "open_ports_raw.txt")
              THEN Write(f1, "open_ports.txt", f1["open_ports_raw.txt"]) ELSE f1
        call == Run("ports", "naabu", "ip_list.txt", nb.rc)
    IN IF ~Exists(f2, "open_ports.txt") \/ ~f2["open_ports.txt"].text
       THEN [fs |-> f2, raised |-> FALSE,
             events |-> call \o Caught("ports", "nmap quick scan error"),
             log |-> Log("ERROR", "nmap quick scan error")]
       ELSE LET loop == NmapLoop(f2["open_ports.txt"].lines, 0, 0, failAt)
            IN [fs |-> WithFiles(f2, loop.files), raised |-> FALSE,
                events |-> call \o loop.events, log |-> <<>>]

\* A port scan that does not look at ip_list.txt before starting naabu.
step_ports_unguarded(files, nb, failAt) == ports_scan(files, nb, failAt)

\* step_ports: skipped when ip_list.txt is missing or has size 0.
step_ports(files, nb, failAt) ==
    IF ~Exists(files, "ip_list.txt") \/ files["ip_list.txt"] = File(<<>>)
    THEN [fs |-> files, raised |-> FALSE, events |-> <<>>, log |-> <<>>]
    ELSE ports_scan(files, nb, failAt)

StepPorts ==
    /\ pc = "ports"
    /\ \E nb \in NaabuRuns, failAt \in 0..MaxFailAt : Finish("ports", step_ports(fs, nb, failAt))
    /\ UNCHANGED summary

(***************************************************************************)
(* Step 4: step_content.                                                   *)
(***************************************************************************)

\* url.replace('://', '_').replace('/', '_')
FileNameOf(url) == Replace(Replace(url, "://", "_"), "/", "_")

DirsearchOut(url) == "dirsearch_out/" \o FileNameOf(url) \o ".txt"
KatanaOut(url) == "katana_out/" \o FileNameOf(url) \o ".txt"

\* What the tools of step_content can do in a run.  dirsearch fails and
\* leaves no file, reports paths, or reports paths except for the first URL,
\* where its file does not decode; katana exits with kt; glob lists the
\* files in the directory's order, here the sorted one or (rev) its reverse.
ContentRuns ==
    { [ds |-> "fails", kt |-> 1, rev |-> FALSE],
      [ds |-> "reports", kt |-> 0, rev |-> FALSE],
      [ds |-> "reports", kt |-> 0, rev |-> TRUE],
      [ds |-> "mixed", kt |-> 124, rev |-> FALSE] }

\* What dirsearch reports for a URL.
DirsearchReport(url) == File(<<"200 " \o url \o "/admin", "", "200 " \o url \o "/admin">>)

\* The loop over alive.txt from URL number k on.
RECURSIVE ContentLoop(_, _, _, _, _, _)
ContentLoop(lines, k, files, p, ds, kt) ==
    IF lines = <<>> THEN [fs |-> files, events |-> <<>>, log |-> <<>>]
    ELSE LET url == Strip(Head(lines)) IN
         IF url = "" THEN ContentLoop(Tail(lines), k, files, p, ds, kt)
         ELSE LET has == Exists(files, DirsearchPy)
                  f1 == IF has /\ ds # "fails"
                        THEN Write(files, DirsearchOut(url),
                                   IF ds = "mixed" /\ k = 1 THEN Garbage
                                   ELSE DirsearchReport(url))
                        ELSE files
                  f2 == IF Which(p, "katana") /\ kt = 0
                        THEN Write(f1, KatanaOut(url), File(<<url>>)) ELSE f1
                  rest == ContentLoop(Tail(lines), k + 1, f2, p, ds, kt)
              IN [fs |-> rest.fs,
                  events |-> (IF has THEN Run("content", "dirsearch", url,
                                              IF ds = "fails" THEN 1 ELSE 0)
                              ELSE <<>>)
                             \o (IF Which(p, "katana") THEN Run("content", "katana", url, kt)
                                 ELSE <<>>)
                             \o rest.events,
                  log |-> (IF has THEN <<>> ELSE Log("INFO", "dirsearch not present"))
                          \o rest.log]

\* dir_out.glob('*.txt')
DirsearchFiles(files) == { n \in DOMAIN files : StartsWith(n, "dirsearch_out/") }

Reverse(seq) == [i \in 1..Len(seq) |-> seq[Len(seq) + 1 - i]]

\* The merge into dirs.txt: every line of every file that can be read; a
\* file that cannot is passed over by "except Exception: pass".
RECURSIVE MergeDirs(_, _)
MergeDirs(files, order) ==
    IF order = <<>> THEN [lines |-> <<>>, events |-> <<>>]
    ELSE LET rest == MergeDirs(files, Tail(order))
         IN IF files[Head(order)].text
            THEN [rest EXCEPT !.lines = files[Head(order)].lines \o @]
            ELSE [rest EXCEPT !.events = Caught("content", "dirs merge") \o @]

step_content(files, p, ds, kt, rev) ==
    IF ~Exists(files, "alive.txt")
    THEN [fs |-> files, raised |-> FALSE, events |-> <<>>, log |-> <<>>]
    ELSE LET loop == ContentLoop(files["alive.txt"].lines, 1, files, p, ds, kt)
             names == Sorted(DirsearchFiles(loop.fs))
             merged == MergeDirs(loop.fs, IF rev THEN Reverse(names) ELSE names)
         IN [fs |-> Write(loop.fs, "dirs.txt", File(merged.lines)), raised |-> FALSE,
             events |-> loop.events \o merged.events, log |-> loop.log]

StepContent ==
    /\ pc = "content"
    /\ \E r \in ContentRuns :
          Finish("content", step_content(fs, path, r.ds, r.kt, r.rev))
    /\ UNCHANGED summary

(***************************************************************************)
(* Step 5: step_nuclei, and generate_summary.                              *)
(***************************************************************************)

step_nuclei(files, p, rc) ==
    IF ~Exists(files, "alive.txt") \/ ~Which(p, "nuclei")
    THEN [fs |-> files, raised |-> FALSE, events |-> <<>>, log |-> <<>>]
    ELSE [fs |-> IF rc = 0 THEN Write(files, "nuclei_results.txt", File(<<>>)) ELSE files,
          raised |-> FALSE, events |-> Run("nuclei", "nuclei", "alive.txt", rc),
          log |-> <<>>]

NucleiCodes == {0, 124}

StepNuclei ==
    /\ pc = "nuclei"
    /\ \E rc \in NucleiCodes : Finish("nuclei", step_nuclei(fs, path, rc))
    /\ UNCHANGED summary

Counted == <<"subs_all.txt", "alive.txt", "open_ports.txt">>

\* sum(1 for _ in open(name)) when the file exists, else the initial 0
CountOf(files, name) == IF Exists(files, name) THEN Len(files[name].lines) ELSE 0

\* Counting a file that does not decode raises inside the try block.
SummaryRaises(files) == \E n \in Range(Counted) \cap DOMAIN files : ~files[n].text

\* generate_summary: the record written to summary.json (the timestamp is
\* left out), or the fault its handler logs.
generate_summary(files) ==
    IF SummaryRaises(files)
    THEN [summary |-> <<>>, events |-> Caught("summary", "summary error"),
          log |-> Log("ERROR", "summary error")]
    ELSE [summary |-> <<[target |-> Target,
                         stats |-> [subdomains |-> CountOf(files, "subs_all.txt"),
                                    alive |-> CountOf(files, "alive.txt"),
                                    open_ports |-> CountOf(files, "open_ports.txt")]]>>,
          events |-> <<>>, log |-> <<>>]

GenerateSummary ==
    /\ pc = "summary"
    /\ LET r == generate_summary(fs)
       IN /\ summary' = r.summary
          /\ Finish("summary", [fs |-> fs, raised |-> FALSE, events |-> r.events,
                                log |-> r.log])

\* "except KeyboardInterrupt" of run: the user interrupts the pipeline, here
\* between two stages; what was written stays and nothing is logged.
Interrupt ==
    /\ pc \in Range(Stages)
    /\ pc' = "done"
    /\ trace' = trace \o <<Ev("interrupt", "run", "KeyboardInterrupt", "", 0)>>
    /\ UNCHANGED <<path, do_install, fs, summary, error_log, chk>>

Next ==
    \/ Check
    \/ StepSubenum
    \/ StepAlive
    \/ StepPorts
    \/ StepContent
    \/ StepNuclei
    \/ GenerateSummary
    \/ Interrupt

Spec == Init /\ [][Next]_vars
(***************************************************************************)
(* Properties of a run, read off the trace and the files.                  *)
(***************************************************************************)

Order == <<"check">> \o Stages

Events(kind) == SelectSeq(trace, LAMBDA e : e.ev = kind)

\* The stages entered so far, in the order they were entered.
EnteredStages ==
    LET e == Events("enter") IN [i \in 1..Len(e) |-> e[i].stage]

IndexOf(stage) == CHOOSE i \in 1..Len(Order) : Order[i] = stage

\* The recon tools the pipeline drives.
ReconTools == {"subfinder", "httpx", "naabu", "nmap", "dirsearch", "katana", "nuclei"}

\* C1: stages are entered in the order check, subenum, alive, ports,
\* content, nuclei, summary, each at most once and never again after a later
\* one; a stage is entered only once the one before it has returned; and a
\* command that was started has exited before anything else happens, so no
\* two commands are in progress together.
C1_StagesInOrder ==
    /\ LET entered == EnteredStages
       IN Len(entered) <= Len(Order) /\ entered = SubSeq(Order, 1, Len(entered))
    /\ \A i \in 1..Len(trace) :
          /\ (trace[i].ev = "enter" /\ trace[i].stage # "check")
                => /\ i > 1
                   /\ trace[i - 1] = Ev("return", Order[IndexOf(trace[i].stage) - 1], "", "", 0)
          /\ trace[i].ev = "start"
                => /\ i < Len(trace)
                   /\ trace[i + 1].ev = "exit"
                   /\ trace[i + 1].what = trace[i].what
          /\ trace[i].ev = "exit" => (i > 1 /\ trace[i - 1].ev = "start")

\* A run that went through every stage and ran commands on the way.
C1_Witness ==
    /\ pc = "done"
    /\ EnteredStages = Order
    /\ \E i \in 1..Len(trace) : trace[i].ev = "exit" /\ trace[i].what = "nmap"
    /\ \E i \in 1..Len(trace) : trace[i].ev = "exit" /\ trace[i].what = "nuclei"

\* C2: when check_and_install_all returned False, run is over without an
\* exception, no stage of the pipeline was entered, no recon tool was run,
\* and neither an artifact nor summary.json was written.
C2_FailedCheckStopsRun ==
    chk.ok = "false" =>
        /\ pc = "done"
        /\ EnteredStages = <<"check">>
        /\ \A i \in 1..Len(trace) :
              /\ trace[i].ev \in {"enter", "return", "start", "exit"}
              /\ trace[i].ev = "start" => trace[i].what \notin ReconTools
        /\ DOMAIN fs \subseteq {DirsearchPy}
        /\ summary = <<>>

\* A check that failed although its install pass succeeded.
C2_Witness ==
    /\ chk.ok = "false"
    /\ chk.installed # <<>>
    /\ \E i \in 1..Len(trace) : trace[i].ev = "exit" /\ trace[i].rc = 0

\* The contents of the bracketed fields of a line, left to right.
RECURSIVE Bracketed(_)
Bracketed(s) ==
    IF s = "" THEN <<>>
    ELSE IF Head(s) = "[" /\ Contains(Tail(s), "]")
         THEN <<Before(Tail(s), "]")>>
              \o Bracketed(SubSeq(s, Len(Before(Tail(s), "]")) + 3, Len(s)))
         ELSE Bracketed(Tail(s))

\* The dot-separated parts of s.
RECURSIVE DotParts(_)
DotParts(s) ==
    IF ~Contains(s, ".") THEN <<s>>
    ELSE <<Before(s, ".")>> \o DotParts(SubSeq(s, Len(Before(s, ".")) + 2, Len(s)))

AllDigits(s) == s # "" /\ \A i \in 1..Len(s) : Contains(Digits, SubSeq(s, i, i))

\* Four groups of digits separated by dots.
LooksLikeIPv4(s) ==
    Len(DotParts(s)) = 4 /\ \A i \in 1..4 : AllDigits(DotParts(s)[i])

\* The resolved IP of a raw line: its first bracketed field that is an IPv4.
ResolvedIp(line) ==
    LET ips == SelectSeq(Bracketed(line), LooksLikeIPv4)
    IN IF ips = <<>> THEN <<>> ELSE <<ips[1]>>

RECURSIVE ResolvedIps(_)
ResolvedIps(raw) ==
    IF raw = <<>> THEN <<>>
    ELSE (IF Strip(Head(raw)) = "" THEN <<>> ELSE ResolvedIp(Head(raw)))
         \o ResolvedIps(Tail(raw))

NonBlank(raw) == SelectSeq(raw, LAMBDA l : Strip(l) # "")

\* C3: once step_alive has parsed httpx_raw.txt, alive.txt holds the first
\* token of every non-blank raw line and ip_list.txt holds, for every such
\* line that has one, its bracketed IPv4 (1.2.3.4 for the line
\* "https://a.example.com [200] [Title] [1.2.3.4]"), never another field.
C3_IpListHoldsResolvedIps ==
    (Exists(fs, "alive.txt") /\ fs["httpx_raw.txt"].text) =>
        /\ fs["alive.txt"].lines
              = [i \in 1..Len(NonBlank(fs["httpx_raw.txt"].lines)) |->
                    Token(LStrip(NonBlank(fs["httpx_raw.txt"].lines)[i]))]
        /\ fs["ip_list.txt"].lines = ResolvedIps(fs["httpx_raw.txt"].lines)

Artifacts == {"subs_all.txt", "alive.txt", "ip_list.txt", "open_ports.txt", "dirs.txt"}

\* A line without surrounding whitespace that is not empty.
Trimmed(l) == l # "" /\ ~IsSpace(SubSeq(l, 1, 1)) /\ ~IsSpace(SubSeq(l, Len(l), Len(l)))

AllTrimmed(lines) == \A i \in 1..Len(lines) : Trimmed(lines[i])
NoDuplicates(lines) == \A i, j \in 1..Len(lines) : i # j => lines[i] # lines[j]

\* C4 as stated: every artifact that exists holds only trimmed, non-empty
\* lines, none of them twice.
C4_ArtifactsDeduplicated ==
    \A n \in Artifacts \cap DOMAIN fs :
        fs[n].text => AllTrimmed(fs[n].lines) /\ NoDuplicates(fs[n].lines)

\* C4 as amended: subs_all.txt holds only trimmed, non-empty lines, none of
\* them twice; alive.txt and ip_list.txt hold only trimmed, non-empty lines
\* (a line can repeat).  Nothing is said of open_ports.txt and dirs.txt,
\* which are copies of what the tools wrote.
C4_MergedArtifactsClean ==
    /\ Exists(fs, "subs_all.txt")
          => AllTrimmed(fs["subs_all.txt"].lines) /\ NoDuplicates(fs["subs_all.txt"].lines)
    /\ Exists(fs, "alive.txt") => AllTrimmed(fs["alive.txt"].lines)
    /\ Exists(fs, "ip_list.txt") => AllTrimmed(fs["ip_list.txt"].lines)

\* The sources held a padded duplicate, and the probe reported a URL twice.
C4_Witness ==
    /\ Exists(fs, "subs_all.txt") /\ Exists(fs, "subfinder.txt") /\ Exists(fs, "alive.txt")
    /\ \E l \in Range(fs["subfinder.txt"].lines) : l # "" /\ ~Trimmed(l)
    /\ Len(fs["subs_all.txt"].lines) >= 2
    /\ ~NoDuplicates(fs["alive.txt"].lines)
    /\ fs["ip_list.txt"].lines # <<>>

NonEmptyCount(files, n) ==
    IF Exists(files, n) THEN Len(SelectSeq(files[n].lines, LAMBDA l : l # "")) ELSE 0

\* C5: the counts in summary.json are the numbers of non-empty lines of
\* subs_all.txt, alive.txt and open_ports.txt, and 0 for a file that does
\* not exist.
C5_CountsNonEmptyLines ==
    summary # <<>> =>
        /\ summary[1].stats.subdomains = NonEmptyCount(fs, "subs_all.txt")
        /\ summary[1].stats.alive = NonEmptyCount(fs, "alive.txt")
        /\ summary[1].stats.open_ports = NonEmptyCount(fs, "open_ports.txt")

\* C6, in the case it singles out: when dirsearch was among the missing
\* tools, installation was requested and every install of the pass
\* succeeded, the check finds nothing missing and returns True.
C6_InstalledThenPresent ==
    (/\ chk.ok # "pending" /\ do_install
     /\ "dirsearch" \in Range(chk.missing)
     /\ chk.installed = chk.missing)
        => chk.ok = "true"

\* C7: while alive.txt does not exist, step_ports, step_content and
\* step_nuclei do nothing but return: they run no command, catch no fault
\* and raise nothing.
C7_NoAliveNoTools ==
    ~Exists(fs, "alive.txt") =>
        \A i \in 1..Len(trace) :
            trace[i].stage \in {"ports", "content", "nuclei"}
                => /\ trace[i].ev \in {"enter", "return"}
                   /\ trace[i].ev = "enter"
                         => (i < Len(trace) /\ trace[i + 1] = Ev("return", trace[i].stage, "", "", 0))

\* The probe left no raw output, and the three stages were gone through.
C7_Witness ==
    /\ ~Exists(fs, "alive.txt")
    /\ ~Exists(fs, "httpx_raw.txt")
    /\ "nuclei" \in Range(EnteredStages)
    /\ \E i \in 1..Len(trace) : trace[i].ev = "exit" /\ trace[i].what = "httpx"

\* The lines of the four source files that exist.
SourceLines ==
    UNION { Range(fs[n].lines) : n \in Range(SourceFiles) \cap DOMAIN fs }

\* A host name without surrounding whitespace and without a leading "*.".
Normalized(l) ==
    IF StartsWith(Strip(l), "*.") THEN SubSeq(Strip(l), 3, Len(Strip(l))) ELSE Strip(l)

\* Each line is below the next one: sorted, and nothing twice.
Increasing(lines) == \A i \in 1..(Len(lines) - 1) : StrLess(lines[i], lines[i + 1])

\* The host count step_subenum printed.
HostsPrinted == Events("print")[1].rc

\* C8 as stated: subs_all.txt holds the normalized host names of the four
\* sources (trimmed, a leading "*." removed), each once, in sorted order, and
\* the count printed is its number of lines.
C8_MergedNormalized ==
    Exists(fs, "subs_all.txt") =>
        /\ Increasing(fs["subs_all.txt"].lines)
        /\ Range(fs["subs_all.txt"].lines) = { Normalized(l) : l \in SourceLines } \ {""}
        /\ HostsPrinted = Len(fs["subs_all.txt"].lines)

\* C8 as amended: when step_subenum has returned (the run is about to enter
\* step_alive), subs_all.txt holds the trimmed non-empty lines of the four
\* source files, each once, in sorted order, and the count printed is its
\* number of lines; the merge removes no "*." (only crt.sh name values lose
\* theirs, before they reach crtsh.txt).
C8_MergedTrimmed ==
    (pc = "alive" /\ Exists(fs, "subs_all.txt")) =>
        /\ Increasing(fs["subs_all.txt"].lines)
        /\ AllTrimmed(fs["subs_all.txt"].lines)
        /\ Range(fs["subs_all.txt"].lines) = { Strip(l) : l \in SourceLines } \ {""}
        /\ HostsPrinted = Len(fs["subs_all.txt"].lines)

\* Sources with duplicates, padding and wildcards were merged.
C8_Witness ==
    /\ Exists(fs, "subs_all.txt")
    /\ Len(fs["subs_all.txt"].lines) >= 5
    /\ \E l \in SourceLines : StartsWith(l, "*.")
    /\ \E l \in SourceLines : l # "" /\ ~Trimmed(l)
    /\ Exists(fs, "crtsh.txt") /\ Exists(fs, "urlscan.txt") /\ Exists(fs, "webarchive.txt")

\* The host:port pairs nmap was run on, in order.
NmapScans ==
    LET s == SelectSeq(trace, LAMBDA e : e.ev = "start" /\ e.what = "nmap")
    IN [i \in 1..Len(s) |-> s[i].arg]

\* The lines in host:port form, trimmed.
HostPorts(lines) ==
    LET s == SelectSeq(lines, LAMBDA l : Contains(l, ":"))
    IN [i \in 1..Len(s) |-> Strip(s[i])]

First(n, seq) == SubSeq(seq, 1, IF Len(seq) < n THEN Len(seq) ELSE n)

PortsDone == \E i \in 1..Len(trace) : trace[i] = Ev("return", "ports", "", "", 0)

\* C9 as stated: nmap is run once for each of the first 30 host:port lines
\* of open_ports.txt, in file order, and for no other line; other lines do
\* not count towards the 30.
C9_FirstThirtyHostPorts ==
    (PortsDone /\ Exists(fs, "open_ports.txt") /\ fs["open_ports.txt"].text)
        => NmapScans = First(NmapCap, HostPorts(fs["open_ports.txt"].lines))

\* C9 as amended: nmap is run once for each host:port line among the first
\* 30 lines of open_ports.txt, in file order, and for no other line, so at
\* most 30 times; every line counts towards the 30.  A failed nmap run does
\* not stop the loop, and step_ports, once entered, returns.
C9_HostPortsOfFirstThirty ==
    /\ LET scans == NmapScans
       IN /\ Len(scans) <= NmapCap
          /\ scans = IF PortsDone /\ Exists(fs, "open_ports.txt") /\ fs["open_ports.txt"].text
                     THEN HostPorts(First(NmapCap, fs["open_ports.txt"].lines))
                     ELSE <<>>
    /\ (\E i \in 1..Len(trace) : trace[i].stage = "ports")
          => (PortsDone /\ \A i \in 1..Len(trace) :
                              trace[i].stage = "ports" => trace[i].ev # "raise")

\* The cap cut the scan short, and the nmap run that failed was not the last.
C9_Witness ==
    /\ PortsDone /\ Exists(fs, "open_ports.txt")
    /\ Len(HostPorts(fs["open_ports.txt"].lines)) > NmapCap
    /\ Len(NmapScans) = NmapCap
    /\ \E i \in 1..Len(trace) : trace[i].ev = "exit" /\ trace[i].what = "nmap" /\ trace[i].rc # 0

\* The faults so far: the exceptions a handler caught and the commands that
\* exited with a failure.
NumFaults(t) == Len(SelectSeq(t, LAMBDA e : e.ev = "caught" \/ (e.ev = "exit" /\ e.rc # 0)))

\* The error records in the log.
NumErrors(l) == Len(SelectSeq(l, LAMBDA r : r.level = "ERROR"))

\* C10: no step of the run adds a fault without adding an error record to
\* the error log.
C10_EveryFaultLogged ==
    [][NumFaults(trace') > NumFaults(trace) => NumErrors(error_log') > NumErrors(error_log)]_vars

\* step_content has been reached: the run stands before it or has entered it.
ContentReached == pc = "content" \/ "content" \in Range(EnteredStages)

ContentDone == \E i \in 1..Len(trace) : trace[i] = Ev("return", "content", "", "", 0)

\* Once step_content is reached there is no dirsearch checkout, dirsearch is
\* never started, and dirs.txt, which step_content writes when alive.txt
\* exists, is empty.
NoDirsearch ==
    ContentReached =>
        /\ ~Exists(fs, DirsearchPy)
        /\ \A i \in 1..Len(trace) : trace[i].what # "dirsearch"
        /\ Exists(fs, "dirs.txt") => fs["dirs.txt"] = File(<<>>)
        /\ (ContentDone /\ Exists(fs, "alive.txt")) => Exists(fs, "dirs.txt")

====
